---- MODULE Spec2Model ----
(***************************************************************************)
(* Model of real_esrgan/layers/blocks.py: ResidualDenseBlock,              *)
(* ResidualResidualDenseBlock and ResidualFeatureDistillationBlock.        *)
(*                                                                         *)
(* Tensors are records [shape, data] of shape <<N, C, H, W>>; their values *)
(* are IEEE-754 binary32 numbers (torch.float32, the default dtype), with  *)
(* round-to-nearest-even products and sums, signed zeros, infinities and   *)
(* NaN, so that the 0.2 / 0.05 slopes and the 0.2 residual scale round as  *)
(* they do in the library.                                                 *)
(* Tensors live in a heap and are named by references, so that the         *)
(* in-place LeakyReLU (inplace=True) really overwrites the buffer it is    *)
(* given and nn.Identity really returns the buffer it is given.            *)
(***************************************************************************)
EXTENDS Integers, Sequences, FiniteSets, TLC

\* ------------------------------------------------------------------ bounds
MaxChannels == 2
MaxGrowth == 2
MaxSide == 2
MaxBatch == 2
WideChannels == 64

\* ------------------------------------------------------ binary32 arithmetic
\* A tensor element is an IEEE-754 binary32 number <<class, sign, e, m>>:
\*   <<"fin", s, e, m>>  the number (-1)^s * m * 2^e, with 0 <= m < 2^24 and
\*                       either 2^23 <= m and -149 <= e <= 104 (normal), or
\*                       m < 2^23 and e = -149 (subnormal), or m = 0 and
\*                       e = 0 (the zero of sign s)
\*   <<"inf", s, 0, 0>>  the infinity of sign s
\*   <<"nan", 0, 0, 0>>  not a number (one NaN; sign and payload dropped)
NaN == <<"nan", 0, 0, 0>>

Inf(s) == <<"inf", s, 0, 0>>

Zero(s) == <<"fin", s, 0, 0>>

One == <<"fin", 0, -23, 8388608>>

Values == {"fin", "inf", "nan"} \X {0, 1} \X Int \X Nat

IsNaN(v) == v[1] = "nan"

IsFinite(v) == v[1] = "fin"

IsZero(v) == v[1] = "fin" /\ v[4] = 0

\* a > 0 as the comparison of two floats: false for NaN and for both zeros
Positive(v) == v[1] # "nan" /\ v[2] = 0 /\ ~IsZero(v)

\* a == b as the comparison of two floats: NaN equals nothing, -0 equals +0
FloatEq(a, b) == a[1] # "nan" /\ b[1] # "nan" /\ (a = b \/ (IsZero(a) /\ IsZero(b)))

Xor(s, t) == IF s = t THEN 0 ELSE 1

\* the number of binary digits of n
BitLen[n \in Nat] ==
    IF n >= 4096 THEN 12 + BitLen[n \div 4096]
    ELSE IF n >= 64 THEN 6 + BitLen[n \div 64]
    ELSE IF n >= 8 THEN 3 + BitLen[n \div 8]
    ELSE IF n >= 4 THEN 3 ELSE IF n >= 2 THEN 2 ELSE n

\* round to nearest, ties to even: the float nearest to (-1)^s * (n + f) * 2^e,
\* where 0 <= f < 1 and `sticky` says f > 0; a caller passes sticky only
\* with n >= 2^24, so that f lies below the rounding position
RoundPack[s \in {0, 1}, e \in Int, n \in Nat, sticky \in BOOLEAN] ==
    IF n = 0 THEN Zero(s)
    ELSE LET len == BitLen[n]
             sh  == IF e + len - 24 < -149 THEN -149 - e ELSE len - 24
             q   == IF sh <= 0 THEN n * 2^(0 - sh)
                    ELSE IF sh > 30 THEN 0 ELSE n \div 2^sh
             r   == n % 2^sh
             up  == /\ sh >= 1 /\ sh <= 30
                    /\ \/ r > 2^(sh - 1)
                       \/ r = 2^(sh - 1) /\ (sticky \/ q % 2 = 1)
             m   == IF up THEN q + 1 ELSE q
         IN  IF m = 0 THEN Zero(s)
             ELSE IF m = 16777216
                  THEN IF e + sh + 1 > 104 THEN Inf(s) ELSE <<"fin", s, e + sh + 1, 8388608>>
             ELSE IF e + sh > 104 THEN Inf(s)
             ELSE <<"fin", s, e + sh, m>>

\* float(i) for an integer i
IntToFloat(i) == IF i < 0 THEN RoundPack[1, 0, 0 - i, FALSE] ELSE RoundPack[0, 0, i, FALSE]

SmallInts == [i \in -16..16 |-> IntToFloat(i)]

FromInt(i) == IF i \in DOMAIN SmallInts THEN SmallInts[i] ELSE IntToFloat(i)

\* a * b, rounded. The 48-bit product of the two 24-bit significands is formed
\* from 12-bit halves.
FMul[a \in Values, b \in Values] ==
    IF a[1] = "nan" \/ b[1] = "nan" THEN NaN
    ELSE IF a[1] = "inf" \/ b[1] = "inf"
         THEN IF IsZero(a) \/ IsZero(b) THEN NaN ELSE Inf(Xor(a[2], b[2]))
    ELSE IF a[4] = 0 \/ b[4] = 0 THEN Zero(Xor(a[2], b[2]))
    \* a power of two times a normal number only moves the exponent
    ELSE IF /\ a[4] = 8388608 /\ b[4] >= 8388608
            /\ a[3] + b[3] + 23 >= -149 /\ a[3] + b[3] + 23 <= 104
         THEN <<"fin", Xor(a[2], b[2]), a[3] + b[3] + 23, b[4]>>
    ELSE IF /\ b[4] = 8388608 /\ a[4] >= 8388608
            /\ a[3] + b[3] + 23 >= -149 /\ a[3] + b[3] + 23 <= 104
         THEN <<"fin", Xor(a[2], b[2]), a[3] + b[3] + 23, a[4]>>
    ELSE LET ka == 24 - BitLen[a[4]]
             kb == 24 - BitLen[b[4]]
             ma == a[4] * 2^ka
             mb == b[4] * 2^kb
             ah == ma \div 4096
             al == ma % 4096
             bh == mb \div 4096
             bl == mb % 4096
             mid == ah * bl + al * bh
             low == al * bl + (mid % 4096) * 4096
             lo  == low % 16777216
             hi  == ah * bh + (mid \div 4096) + (low \div 16777216)
         IN  RoundPack[Xor(a[2], b[2]), a[3] - ka + b[3] - kb + 22,
                       hi * 4 + (lo \div 4194304), lo % 4194304 # 0]

\* a + b for finite nonzero a, b with a[3] >= b[3], rounded. Three extra
\* binary digits and the sticky flag keep what the alignment shifts out.
AddAligned(a, b) ==
    LET d  == a[3] - b[3]
        x  == a[4] * 8
        y  == IF d > 27 THEN 0 ELSE (b[4] * 8) \div 2^d
        st == IF d > 27 THEN TRUE ELSE (b[4] * 8) % 2^d # 0
    IN  IF a[2] = b[2] THEN RoundPack[a[2], a[3] - 3, x + y, st]
        ELSE IF x < y THEN RoundPack[b[2], a[3] - 3, y - x, FALSE]
        ELSE IF x = y /\ ~st THEN Zero(0)
        ELSE RoundPack[a[2], a[3] - 3, IF st THEN x - y - 1 ELSE x - y, st]

FAdd[a \in Values, b \in Values] ==
    IF a[1] = "nan" \/ b[1] = "nan" THEN NaN
    ELSE IF a[1] = "inf"
         THEN IF b[1] = "inf" /\ a[2] # b[2] THEN NaN ELSE a
    ELSE IF b[1] = "inf" THEN b
    ELSE IF a[4] = 0 /\ b[4] = 0 THEN Zero(IF a[2] = b[2] THEN a[2] ELSE 0)
    ELSE IF a[4] = 0 THEN b
    ELSE IF b[4] = 0 THEN a
    ELSE IF a[3] >= b[3] THEN AddAligned(a, b) ELSE AddAligned(b, a)

\* the float nearest to n / d, for 1 <= n and 1 <= d <= 32: the scalar a
\* Python number written n/d in decimal becomes in a float32 operation
ToFloat32(n, d) ==
    LET k == 30 - BitLen[n]
    IN  RoundPack[0, 0 - k, (n * 2^k) \div d, (n * 2^k) % d # 0]

\* The order in which a convolution adds up its products is the choice of the
\* library build that runs it, and a float sum depends on the order:
\*   "pairwise"    the products are summed in halves, the bias is added last
\*   "sequential"  the accumulator starts as the bias and the products are
\*                 added one by one in index order
Accumulations == {"pairwise", "sequential"}

\* f[lo] + ... + f[hi], summed pairwise
RECURSIVE FSum(_, _, _)
FSum(f, lo, hi) ==
    IF lo > hi THEN Zero(0)
    ELSE IF lo = hi THEN f[lo]
    ELSE FAdd[FSum(f, lo, (lo + hi) \div 2), FSum(f, ((lo + hi) \div 2) + 1, hi)]

\* (((a + f[lo]) + f[lo + 1]) + ...) + f[hi]
RECURSIVE FFold(_, _, _, _)
FFold(f, a, lo, hi) ==
    IF lo > hi THEN a
    ELSE IF lo = hi THEN FAdd[a, f[lo]]
    ELSE CHOOSE r \in { FFold(f, l, ((lo + hi) \div 2) + 1, hi) :
                          l \in { FFold(f, a, lo, (lo + hi) \div 2) } } : TRUE

\* ------------------------------------------------------------------ tensors
\* a tensor: its shape (N, C, H, W) and its buffer
Tensors == [shape : Seq(Nat), data : Seq(Values)]

Channels(t) == t.shape[2]

\* The buffer of a tensor is flat, in row-major (N, C, H, W) order.
Size(shape) == shape[1] * shape[2] * shape[3] * shape[4]

Offset[shape \in Seq(Nat), b \in Int, c \in Int, y \in Int, x \in Int] ==
    (((b - 1) * shape[2] + (c - 1)) * shape[3] + (y - 1)) * shape[4] + x

At(t, b, c, y, x) == t.data[Offset[t.shape, b, c, y, x]]

\* <<f[lo], ..., f[hi]>>
RECURSIVE Buffer(_, _, _)
Buffer(f, lo, hi) ==
    IF lo > hi THEN << >>
    ELSE IF lo = hi THEN <<f[lo]>>
    ELSE LET mid == (lo + hi) \div 2
         IN  Buffer(f, lo, mid) \o Buffer(f, mid + 1, hi)

\* a new tensor of the given shape whose element (b, c, y, x) is f[b, c, y, x]
NewTensor(shape, f) ==
    LET hw  == shape[3] * shape[4]
        chw == shape[2] * hw
        elem == [i \in 1..Size(shape) |->
                    f[((i - 1) \div chw) + 1,
                      (((i - 1) % chw) \div hw) + 1,
                      (((i - 1) % hw) \div shape[4]) + 1,
                      ((i - 1) % shape[4]) + 1]]
    IN  [shape |-> shape, data |-> Buffer(elem, 1, Size(shape))]

\* zero padding: a read outside the image gives 0
PaddedAt(t, b, c, y, x) ==
    IF y >= 1 /\ y <= t.shape[3] /\ x >= 1 /\ x <= t.shape[4]
    THEN At(t, b, c, y, x)
    ELSE Zero(0)

\* ----------------------------------------------------------- torch operators
\* nn.Conv2d(in_channels, out_channels, kernel_size, stride=1, padding):
\* the parameters a convolution owns. Weights are integer-valued floats, chosen by `wkind`:
\*   "zero"   every weight and bias 0
\*   "center" weight 1 at the kernel centre, bias 0
\*   "tap"    for each output channel one weight 1, at a tap and an input
\*            channel that depend on the output channel; bias in {0, 1}
\*   "mixed"  in {-1, 0, 1}, different along every index, bias in {-1, 0, 1}
WeightAt(wkind, seed, oc, ic, ky, kx, k) ==
    CASE wkind = "zero"   -> 0
      [] wkind = "center" -> IF ky = (k + 1) \div 2 /\ kx = (k + 1) \div 2 THEN 1 ELSE 0
      [] wkind = "tap"    -> IF /\ ky = ((seed + oc) % k) + 1
                                /\ kx = ((seed + 2 * oc) % k) + 1
                                /\ (ic + seed + oc) % 2 = 0
                             THEN 1 ELSE 0
      [] OTHER            -> ((seed + oc + 2 * ic + 3 * ky + kx) % 3) - 1

BiasAt(wkind, seed, oc) ==
    CASE wkind = "zero"   -> 0
      [] wkind = "center" -> 0
      [] wkind = "tap"    -> (seed + oc) % 2
      [] OTHER            -> ((seed + 2 * oc) % 3) - 1

Conv2d(in_channels, out_channels, kernel_size, padding, wkind, seed) ==
    [type         |-> "Conv2d",
     in_channels  |-> in_channels,
     out_channels |-> out_channels,
     kernel_size  |-> kernel_size,
     padding      |-> padding,
     weight |-> [oc \in 1..out_channels |-> [ic \in 1..in_channels |->
                  [ky \in 1..kernel_size |-> [kx \in 1..kernel_size |->
                    WeightAt(wkind, seed, oc, ic, ky, kx, kernel_size)]]]],
     bias   |-> [oc \in 1..out_channels |-> BiasAt(wkind, seed, oc)]]

Convs ==
    [type : {"Conv2d"}, in_channels : Nat, out_channels : Nat, kernel_size : Nat,
     padding : Nat, weight : Seq(Seq(Seq(Seq(Int)))), bias : Seq(Int)]

\* Conv2d.forward on a tensor of the declared channel count: cross-correlation
\* with zero padding, stride 1, plus bias
ConvOutShape(conv, t) ==
    <<t.shape[1], conv.out_channels,
      t.shape[3] + 2 * conv.padding - conv.kernel_size + 1,
      t.shape[4] + 2 * conv.padding - conv.kernel_size + 1>>

\* the weights of output channel oc, in the order (ic, ky, kx)
ConvRow(conv, oc) ==
    [j \in 1..(conv.in_channels * conv.kernel_size * conv.kernel_size) |->
        FromInt(conv.weight[oc]
                    [((j - 1) \div (conv.kernel_size * conv.kernel_size)) + 1]
                    [(((j - 1) % (conv.kernel_size * conv.kernel_size))
                          \div conv.kernel_size) + 1]
                    [((j - 1) % conv.kernel_size) + 1])]

\* the zero-padded values under the kernel at output position (b, y, x), in
\* the same order
ConvWindow(conv, t, b, y, x) ==
    [j \in 1..(conv.in_channels * conv.kernel_size * conv.kernel_size) |->
        PaddedAt(t, b,
                 ((j - 1) \div (conv.kernel_size * conv.kernel_size)) + 1,
                 y + (((j - 1) % (conv.kernel_size * conv.kernel_size))
                         \div conv.kernel_size) - conv.padding,
                 x + ((j - 1) % conv.kernel_size) - conv.padding)]

\* bias + sum of row[j] * window[j], every product and every sum rounded
ConvAt[row \in Seq(Values), window \in Seq(Values), bias \in Values, accumulation \in Accumulations] ==
    LET term == [j \in 1..Len(row) |-> FMul[row[j], window[j]]]
    IN  IF accumulation = "sequential"
        THEN FFold(term, bias, 1, Len(row))
        ELSE FAdd[FSum(term, 1, Len(row)), bias]

ConvValues[rows \in Seq(Seq(Values)), windows \in Seq(Seq(Values)), bias \in Seq(Values), shape \in Seq(Nat), accumulation \in Accumulations] ==
    LET at == [b \in Nat, oc \in Nat, y \in Nat, x \in Nat |->
                  ConvAt[rows[oc], windows[((b - 1) * shape[3] + (y - 1)) * shape[4] + x],
                         bias[oc], accumulation]]
    IN  NewTensor(shape, at)

ConvForward[conv \in Convs, t \in Tensors, accumulation \in Accumulations] ==
    ConvValues[[oc \in 1..conv.out_channels |-> ConvRow(conv, oc)],
               [i \in 1..(t.shape[1] * ConvOutShape(conv, t)[3] * ConvOutShape(conv, t)[4]) |->
                   ConvWindow(conv, t,
                       ((i - 1) \div (ConvOutShape(conv, t)[3] * ConvOutShape(conv, t)[4])) + 1,
                       (((i - 1) % (ConvOutShape(conv, t)[3] * ConvOutShape(conv, t)[4]))
                           \div ConvOutShape(conv, t)[4]) + 1,
                       ((i - 1) % ConvOutShape(conv, t)[4]) + 1)],
               [oc \in 1..conv.out_channels |-> FromInt(conv.bias[oc])],
               ConvOutShape(conv, t), accumulation]

\* F.leaky_relu: x if x > 0 else x * negative_slope
LeakyAt(v, negative_slope) == IF Positive(v) THEN v ELSE FMul[v, negative_slope]

LeakyReLUValues[t \in Tensors, negative_slope \in Values] ==
    LET at == [b \in Nat, c \in Nat, y \in Nat, x \in Nat |->
                  LeakyAt(At(t, b, c, y, x), negative_slope)]
    IN  NewTensor(t.shape, at)

\* torch.mul(t, scalar)
MulValues[t \in Tensors, scalar \in Values] ==
    LET at == [b \in Nat, c \in Nat, y \in Nat, x \in Nat |->
                  FMul[At(t, b, c, y, x), scalar]]
    IN  NewTensor(t.shape, at)

\* torch.add(a, b) with torch's broadcasting: sizes must be equal or 1
Broadcastable(a, b) ==
    \A i \in 1..4 : a.shape[i] = b.shape[i] \/ a.shape[i] = 1 \/ b.shape[i] = 1

BroadcastShape(a, b) ==
    LET dim(i) == IF a.shape[i] = 1 THEN b.shape[i] ELSE a.shape[i]
    IN  <<dim(1), dim(2), dim(3), dim(4)>>

BIdx(t, i, j) == IF t.shape[i] = 1 THEN 1 ELSE j

AddValues[a \in Tensors, b \in Tensors] ==
    LET at == [n \in Nat, c \in Nat, y \in Nat, x \in Nat |->
                  FAdd[At(a, BIdx(a, 1, n), BIdx(a, 2, c), BIdx(a, 3, y), BIdx(a, 4, x)),
                       At(b, BIdx(b, 1, n), BIdx(b, 2, c), BIdx(b, 3, y), BIdx(b, 4, x))]]
    IN  NewTensor(BroadcastShape(a, b), at)

\* torch.cat(ts, 1): all sizes but the channel size must agree
RECURSIVE CatChannels(_, _)
CatChannels(ts, n) == IF n = 0 THEN 0 ELSE CatChannels(ts, n - 1) + Channels(ts[n])

CatCompatible(ts) ==
    \A i \in 1..Len(ts) : \A d \in {1, 3, 4} : ts[i].shape[d] = ts[1].shape[d]

\* the tensor of ts that holds channel c of the concatenation, and its channel there
RECURSIVE CatPick(_, _, _)
CatPick(ts, i, c) ==
    IF c <= Channels(ts[i]) THEN <<i, c>> ELSE CatPick(ts, i + 1, c - Channels(ts[i]))

CatValues[ts \in Seq(Tensors)] ==
    LET at == [b \in Nat, c \in Nat, y \in Nat, x \in Nat |->
                  LET p == CatPick(ts, 1, c) IN At(ts[p[1]], b, p[2], y, x)]
    IN  NewTensor(<<ts[1].shape[1], CatChannels(ts, Len(ts)), ts[1].shape[3], ts[1].shape[4]>>, at)

\* ------------------------------------------------- execution of a forward call
\* An execution context m is [heap, trace, err]: the tensors allocated so far
\* (a reference is an index into heap), the sub-module and torch calls made so
\* far, and the exception raised ("none" while the call is running normally).
\* Every call returns [m, ref]: the context after it and the reference it
\* returns.
NoRef == 0

EmptyContext == [heap |-> << >>, trace |-> << >>, err |-> "none", accumulation |-> "none"]

Entry(scope, op, ins, out, want, got) ==
    [scope |-> scope, op |-> op, ins |-> ins, out |-> out, want |-> want, got |-> got]

Raise(m, e) ==
    [m |-> [m EXCEPT !.err = "ShapeError", !.trace = Append(@, e)], ref |-> NoRef]

\* the result is a new tensor
Fresh(m, t, scope, op, ins, want, got) ==
    [m |-> [m EXCEPT !.heap = Append(@, t),
                     !.trace = Append(@, Entry(scope, op, ins, Len(m.heap) + 1, want, got))],
     ref |-> Len(m.heap) + 1]

\* self.conv_i(t): a new tensor, or a shape error when the channel count of t
\* is not the declared in_channels
CallConv(m, scope, name, conv, r) ==
    IF \/ Channels(m.heap[r]) # conv.in_channels
       \/ ConvOutShape(conv, m.heap[r])[3] < 1
       \/ ConvOutShape(conv, m.heap[r])[4] < 1
    THEN Raise(m, Entry(scope, name, <<r>>, NoRef, conv.in_channels, Channels(m.heap[r])))
    ELSE Fresh(m, ConvForward[conv, m.heap[r], m.accumulation], scope, name, <<r>>,
               conv.in_channels, Channels(m.heap[r]))

\* self.leaky_relu(t) with nn.LeakyReLU(negative_slope, inplace): with
\* inplace=True the buffer of t is overwritten and t itself is returned
CallLeakyReLU(m, scope, name, act, r) ==
    IF act.inplace
    THEN [m |-> [m EXCEPT !.heap[r] = LeakyReLUValues[@, act.negative_slope],
                          !.trace = Append(@, Entry(scope, name, <<r>>, r, 0, 0))],
          ref |-> r]
    ELSE Fresh(m, LeakyReLUValues[m.heap[r], act.negative_slope], scope, name, <<r>>, 0, 0)

\* self.identity(t) with nn.Identity(): returns its argument
CallIdentity(m, scope, name, r) ==
    [m |-> [m EXCEPT !.trace = Append(@, Entry(scope, name, <<r>>, r, 0, 0))], ref |-> r]

\* torch.cat([...], 1)
CallCat(m, scope, rs) ==
    IF ~CatCompatible([i \in 1..Len(rs) |-> m.heap[rs[i]]])
    THEN Raise(m, Entry(scope, "cat", rs, NoRef, 0, 0))
    ELSE Fresh(m, CatValues[[i \in 1..Len(rs) |-> m.heap[rs[i]]]], scope, "cat", rs, 0, 0)

\* torch.mul(t, scalar)
CallMul(m, scope, r, scalar) ==
    Fresh(m, MulValues[m.heap[r], scalar], scope, "mul", <<r>>, 0, 0)

\* torch.add(a, b)
CallAdd(m, scope, ra, rb) ==
    IF ~Broadcastable(m.heap[ra], m.heap[rb])
    THEN Raise(m, Entry(scope, "add", <<ra, rb>>, NoRef, 0, 0))
    ELSE Fresh(m, AddValues[m.heap[ra], m.heap[rb]], scope, "add", <<ra, rb>>, 0, 0)

\* ----------------------------------------------- EnhancedSpatialAttention
\* The attention gate is not defined in blocks.py; the block only names the
\* class (line 97) and calls the instance (line 125). A gate is a
\* shape-preserving Tensor -> Tensor transform that returns a new tensor.
GateKinds == {"affine", "negate"}

EnhancedSpatialAttention(gate, channels) ==
    [type |-> "EnhancedSpatialAttention", gate |-> gate, channels |-> channels]

Gates == [type : {"EnhancedSpatialAttention"}, gate : GateKinds, channels : Nat]

GateValues[esa \in Gates, t \in Tensors] ==
    LET at == [b \in Nat, c \in Nat, y \in Nat, x \in Nat |->
                  IF esa.gate = "affine"
                  THEN FAdd[FMul[FromInt(2), At(t, b, c, y, x)], One]
                  ELSE FMul[FromInt(-1), At(t, b, c, y, x)]]
    IN  NewTensor(t.shape, at)

CallGate(m, scope, name, esa, r) ==
    Fresh(m, GateValues[esa, m.heap[r]], scope, name, <<r>>, 0, 0)

\* ------------------------------------------------------------ the three blocks
\* The statements of a forward method, in execution order. A nested call
\* f(g(a)) is the two statements t = g(a); t = f(t).
Assign(dst, src) ==
    [dst |-> dst, on |-> "=", fn |-> "=", args |-> <<src>>, k |-> Zero(0)]

Self(dst, fn, arg) ==
    [dst |-> dst, on |-> "self", fn |-> fn, args |-> <<arg>>, k |-> Zero(0)]

TorchCat(dst, args) ==
    [dst |-> dst, on |-> "torch", fn |-> "cat", args |-> args, k |-> Zero(0)]

TorchMul(dst, arg, k) ==
    [dst |-> dst, on |-> "torch", fn |-> "mul", args |-> <<arg>>, k |-> k]

TorchAdd(dst, a, b) ==
    [dst |-> dst, on |-> "torch", fn |-> "add", args |-> <<a, b>>, k |-> Zero(0)]

LeakyReLU(negative_slope, inplace) ==
    [type |-> "LeakyReLU", negative_slope |-> negative_slope, inplace |-> inplace]

Identity == [type |-> "Identity"]

\* variant: conv_5 declared with growth_channels output channels, like the
\* four convolutions before it
ResidualDenseBlockNarrowOut(channels, growth_channels, wkind, seed) ==
    [type   |-> "ResidualDenseBlock",
     conv_1 |-> Conv2d(channels + growth_channels * 0, growth_channels, 3, 1, wkind, seed + 1),
     conv_2 |-> Conv2d(channels + growth_channels * 1, growth_channels, 3, 1, wkind, seed + 2),
     conv_3 |-> Conv2d(channels + growth_channels * 2, growth_channels, 3, 1, wkind, seed + 3),
     conv_4 |-> Conv2d(channels + growth_channels * 3, growth_channels, 3, 1, wkind, seed + 4),
     conv_5 |-> Conv2d(channels + growth_channels * 4, growth_channels, 3, 1, wkind, seed + 5),
     leaky_relu |-> LeakyReLU(ToFloat32(1, 5), TRUE),
     identity   |-> Identity]

\* variant: conv_3 declared with the input width of conv_4
ResidualDenseBlockWideConv3(channels, growth_channels, wkind, seed) ==
    [type   |-> "ResidualDenseBlock",
     conv_1 |-> Conv2d(channels + growth_channels * 0, growth_channels, 3, 1, wkind, seed + 1),
     conv_2 |-> Conv2d(channels + growth_channels * 1, growth_channels, 3, 1, wkind, seed + 2),
     conv_3 |-> Conv2d(channels + growth_channels * 3, growth_channels, 3, 1, wkind, seed + 3),
     conv_4 |-> Conv2d(channels + growth_channels * 3, growth_channels, 3, 1, wkind, seed + 4),
     conv_5 |-> Conv2d(channels + growth_channels * 4, channels, 3, 1, wkind, seed + 5),
     leaky_relu |-> LeakyReLU(ToFloat32(1, 5), TRUE),
     identity   |-> Identity]

\* ResidualDenseBlock.__init__
ResidualDenseBlock(channels, growth_channels, wkind, seed) ==
    [type   |-> "ResidualDenseBlock",
     conv_1 |-> Conv2d(channels + growth_channels * 0, growth_channels, 3, 1, wkind, seed + 1),
     conv_2 |-> Conv2d(channels + growth_channels * 1, growth_channels, 3, 1, wkind, seed + 2),
     conv_3 |-> Conv2d(channels + growth_channels * 2, growth_channels, 3, 1, wkind, seed + 3),
     conv_4 |-> Conv2d(channels + growth_channels * 3, growth_channels, 3, 1, wkind, seed + 4),
     conv_5 |-> Conv2d(channels + growth_channels * 4, channels, 3, 1, wkind, seed + 5),
     leaky_relu |-> LeakyReLU(ToFloat32(1, 5), TRUE),
     identity   |-> Identity]

\* variant: the in-place activation applied to x before conv_1
RDBCodeActivatesInput ==
    << Assign("identity", "x"),
       Self("x", "leaky_relu", "x"),
       Self("out_1", "conv_1", "x"),
       Self("out_1", "leaky_relu", "out_1"),
       TorchCat("out_2", <<"x", "out_1">>),
       Self("out_2", "conv_2", "out_2"),
       Self("out_2", "leaky_relu", "out_2"),
       TorchCat("out_3", <<"x", "out_1", "out_2">>),
       Self("out_3", "conv_3", "out_3"),
       Self("out_3", "leaky_relu", "out_3"),
       TorchCat("out_4", <<"x", "out_1", "out_2", "out_3">>),
       Self("out_4", "conv_4", "out_4"),
       Self("out_4", "leaky_relu", "out_4"),
       TorchCat("out_5", <<"x", "out_1", "out_2", "out_3", "out_4">>),
       Self("out_5", "conv_5", "out_5"),
       Self("out_5", "identity", "out_5"),
       TorchMul("out", "out_5", ToFloat32(1, 5)),
       TorchAdd("return", "out", "identity") >>

\* variant: forward without the residual connection
RDBCodeNoResidual ==
    << Assign("identity", "x"),
       Self("out_1", "conv_1", "x"),
       Self("out_1", "leaky_relu", "out_1"),
       TorchCat("out_2", <<"x", "out_1">>),
       Self("out_2", "conv_2", "out_2"),
       Self("out_2", "leaky_relu", "out_2"),
       TorchCat("out_3", <<"x", "out_1", "out_2">>),
       Self("out_3", "conv_3", "out_3"),
       Self("out_3", "leaky_relu", "out_3"),
       TorchCat("out_4", <<"x", "out_1", "out_2", "out_3">>),
       Self("out_4", "conv_4", "out_4"),
       Self("out_4", "leaky_relu", "out_4"),
       TorchCat("out_5", <<"x", "out_1", "out_2", "out_3", "out_4">>),
       Self("out_5", "conv_5", "out_5"),
       Self("out_5", "identity", "out_5"),
       TorchMul("return", "out_5", ToFloat32(1, 5)) >>

\* ResidualDenseBlock.forward
RDBCode ==
    << Assign("identity", "x"),
       Self("out_1", "conv_1", "x"),
       Self("out_1", "leaky_relu", "out_1"),
       TorchCat("out_2", <<"x", "out_1">>),
       Self("out_2", "conv_2", "out_2"),
       Self("out_2", "leaky_relu", "out_2"),
       TorchCat("out_3", <<"x", "out_1", "out_2">>),
       Self("out_3", "conv_3", "out_3"),
       Self("out_3", "leaky_relu", "out_3"),
       TorchCat("out_4", <<"x", "out_1", "out_2", "out_3">>),
       Self("out_4", "conv_4", "out_4"),
       Self("out_4", "leaky_relu", "out_4"),
       TorchCat("out_5", <<"x", "out_1", "out_2", "out_3", "out_4">>),
       Self("out_5", "conv_5", "out_5"),
       Self("out_5", "identity", "out_5"),
       TorchMul("out", "out_5", ToFloat32(1, 5)),
       TorchAdd("return", "out", "identity") >>

\* ResidualResidualDenseBlock.__init__
ResidualResidualDenseBlock(channels, growth_channels, wkinds) ==
    [type  |-> "ResidualResidualDenseBlock",
     rdb_1 |-> ResidualDenseBlock(channels, growth_channels, wkinds[1], 0),
     rdb_2 |-> ResidualDenseBlock(channels, growth_channels, wkinds[2], 5),
     rdb_3 |-> ResidualDenseBlock(channels, growth_channels, wkinds[3], 10)]

\* variant: the chain added to the input without the 0.2 scale
RRDBCodeUnscaled ==
    << Assign("identity", "x"),
       Self("out", "rdb_1", "x"),
       Self("out", "rdb_2", "out"),
       Self("out", "rdb_3", "out"),
       TorchAdd("return", "out", "identity") >>

\* variant: the 0.2 scale applied to the input of the chain
RRDBCodeScalesFirst ==
    << Assign("identity", "x"),
       TorchMul("out", "x", ToFloat32(1, 5)),
       Self("out", "rdb_1", "out"),
       Self("out", "rdb_2", "out"),
       Self("out", "rdb_3", "out"),
       TorchAdd("return", "out", "identity") >>

\* variant: rdb_3 applied first and rdb_1 last
RRDBCodeReversed ==
    << Assign("identity", "x"),
       Self("out", "rdb_3", "x"),
       Self("out", "rdb_2", "out"),
       Self("out", "rdb_1", "out"),
       TorchMul("out", "out", ToFloat32(1, 5)),
       TorchAdd("return", "out", "identity") >>

\* ResidualResidualDenseBlock.forward
RRDBCode ==
    << Assign("identity", "x"),
       Self("out", "rdb_1", "x"),
       Self("out", "rdb_2", "out"),
       Self("out", "rdb_3", "out"),
       TorchMul("out", "out", ToFloat32(1, 5)),
       TorchAdd("return", "out", "identity") >>

\* variant: conv_5 declared with channels * 2 input channels, which is
\* 4 * (channels // 2) for even channels only
RFDBEvenChannelsOnly(channels, wkind, gate) ==
    [type |-> "ResidualFeatureDistillationBlock",
     distilled_channels |-> channels \div 2,
     remaining_channels |-> channels,
     conv_1_distilled |-> Conv2d(channels, channels \div 2, 1, 0, wkind, 1),
     conv_1_remaining |-> Conv2d(channels, channels, 3, 1, wkind, 2),
     conv_2_distilled |-> Conv2d(channels, channels \div 2, 1, 0, wkind, 3),
     conv_2_remaining |-> Conv2d(channels, channels, 3, 1, wkind, 4),
     conv_3_distilled |-> Conv2d(channels, channels \div 2, 1, 0, wkind, 5),
     conv_3_remaining |-> Conv2d(channels, channels, 3, 1, wkind, 6),
     conv_4 |-> Conv2d(channels, channels \div 2, 3, 1, wkind, 7),
     conv_5 |-> Conv2d(channels * 2, channels, 1, 0, wkind, 8),
     esa |-> EnhancedSpatialAttention(gate, channels),
     leaky_relu |-> LeakyReLU(ToFloat32(1, 20), TRUE)]

\* ResidualFeatureDistillationBlock.__init__, with the class that the name
\* EnhancedSpatialAttention resolved to
ResidualFeatureDistillationBlock(channels, wkind, gate) ==
    [type |-> "ResidualFeatureDistillationBlock",
     distilled_channels |-> channels \div 2,
     remaining_channels |-> channels,
     conv_1_distilled |-> Conv2d(channels, channels \div 2, 1, 0, wkind, 1),
     conv_1_remaining |-> Conv2d(channels, channels, 3, 1, wkind, 2),
     conv_2_distilled |-> Conv2d(channels, channels \div 2, 1, 0, wkind, 3),
     conv_2_remaining |-> Conv2d(channels, channels, 3, 1, wkind, 4),
     conv_3_distilled |-> Conv2d(channels, channels \div 2, 1, 0, wkind, 5),
     conv_3_remaining |-> Conv2d(channels, channels, 3, 1, wkind, 6),
     conv_4 |-> Conv2d(channels, channels \div 2, 3, 1, wkind, 7),
     conv_5 |-> Conv2d((channels \div 2) * 4, channels, 1, 0, wkind, 8),
     esa |-> EnhancedSpatialAttention(gate, channels),
     leaky_relu |-> LeakyReLU(ToFloat32(1, 20), TRUE)]

\* variant: the concatenation with d1 and d2 exchanged
RFDBCodeCatSwapped ==
    << Self("distilled_conv_1", "conv_1_distilled", "x"),
       Self("distilled_conv_1", "leaky_relu", "distilled_conv_1"),
       Self("remaining_conv_1", "conv_1_remaining", "x"),
       TorchAdd("remaining_conv_1", "remaining_conv_1", "x"),
       Self("remaining_conv_1", "leaky_relu", "remaining_conv_1"),

       Self("distilled_conv_2", "conv_2_distilled", "remaining_conv_1"),
       Self("distilled_conv_2", "leaky_relu", "distilled_conv_2"),
       Self("remaining_conv_2", "conv_2_remaining", "remaining_conv_1"),
       TorchAdd("remaining_conv_2", "remaining_conv_2", "remaining_conv_1"),
       Self("remaining_conv_2", "leaky_relu", "remaining_conv_2"),

       Self("distilled_conv_3", "conv_3_distilled", "remaining_conv_2"),
       Self("distilled_conv_3", "leaky_relu", "distilled_conv_3"),
       Self("remaining_conv_3", "conv_3_remaining", "remaining_conv_2"),
       TorchAdd("remaining_conv_3", "remaining_conv_3", "remaining_conv_2"),
       Self("remaining_conv_3", "leaky_relu", "remaining_conv_3"),

       Self("remaining_conv_4", "conv_4", "remaining_conv_3"),
       Self("remaining_conv_4", "leaky_relu", "remaining_conv_4"),

       TorchCat("out", <<"distilled_conv_2", "distilled_conv_1",
                         "distilled_conv_3", "remaining_conv_4">>),
       Self("out", "conv_5", "out"),
       Self("return", "esa", "out") >>

\* ResidualFeatureDistillationBlock.forward
RFDBCode ==
    << Self("distilled_conv_1", "conv_1_distilled", "x"),
       Self("distilled_conv_1", "leaky_relu", "distilled_conv_1"),
       Self("remaining_conv_1", "conv_1_remaining", "x"),
       TorchAdd("remaining_conv_1", "remaining_conv_1", "x"),
       Self("remaining_conv_1", "leaky_relu", "remaining_conv_1"),

       Self("distilled_conv_2", "conv_2_distilled", "remaining_conv_1"),
       Self("distilled_conv_2", "leaky_relu", "distilled_conv_2"),
       Self("remaining_conv_2", "conv_2_remaining", "remaining_conv_1"),
       TorchAdd("remaining_conv_2", "remaining_conv_2", "remaining_conv_1"),
       Self("remaining_conv_2", "leaky_relu", "remaining_conv_2"),

       Self("distilled_conv_3", "conv_3_distilled", "remaining_conv_2"),
       Self("distilled_conv_3", "leaky_relu", "distilled_conv_3"),
       Self("remaining_conv_3", "conv_3_remaining", "remaining_conv_2"),
       TorchAdd("remaining_conv_3", "remaining_conv_3", "remaining_conv_2"),
       Self("remaining_conv_3", "leaky_relu", "remaining_conv_3"),

       Self("remaining_conv_4", "conv_4", "remaining_conv_3"),
       Self("remaining_conv_4", "leaky_relu", "remaining_conv_4"),

       TorchCat("out", <<"distilled_conv_1", "distilled_conv_2",
                         "distilled_conv_3", "remaining_conv_4">>),
       Self("out", "conv_5", "out"),
       Self("return", "esa", "out") >>

ForwardCode(type) ==
    CASE type = "ResidualDenseBlock"         -> RDBCode
      [] type = "ResidualResidualDenseBlock" -> RRDBCode
      [] OTHER                               -> RFDBCode

\* ----------------------------------------------------------- the interpreter
\* A frame is the execution context m and the local variables env of one
\* call of forward. Run executes the statements code[lo..hi] in order; once
\* an exception is raised no further statement runs. A statement works on
\* the frame the statement before it left: in CHOOSE r \in {F(v) : v \in {e}}
\* the value of e is computed once, before F.
RECURSIVE Run(_, _, _, _, _, _)

\* the return statement: the value forward hands back from frame f
Return(f) ==
    [m |-> f.m, ref |-> IF f.m.err = "none" THEN f.env["return"] ELSE NoRef]

\* Module.__call__ on a block: a new frame with x bound, then the body
CallForward(self, scope, m, r) ==
    CHOOSE res \in
        { Return(f) : f \in { Run(self, scope, ForwardCode(self.type), 1,
                                  Len(ForwardCode(self.type)),
                                  [m |-> m, env |-> "x" :> r]) } } : TRUE

\* nn.Module.__call__: self.<name>(x) runs the forward of the sub-module
CallModule(m, scope, name, sub, r) ==
    CASE sub.type = "Conv2d"    -> CallConv(m, scope, name, sub, r)
      [] sub.type = "LeakyReLU" -> CallLeakyReLU(m, scope, name, sub, r)
      [] sub.type = "Identity"  -> CallIdentity(m, scope, name, r)
      [] sub.type = "EnhancedSpatialAttention" -> CallGate(m, scope, name, sub, r)
      [] OTHER -> CallForward(sub, name, m, r)

\* the right-hand side of a statement
Exec(self, scope, ins, m, env) ==
    CASE ins.on = "="  -> [m |-> m, ref |-> env[ins.args[1]]]
      [] ins.on = "torch" /\ ins.fn = "cat" ->
            CallCat(m, scope, [i \in 1..Len(ins.args) |-> env[ins.args[i]]])
      [] ins.on = "torch" /\ ins.fn = "mul" ->
            CallMul(m, scope, env[ins.args[1]], ins.k)
      [] ins.on = "torch" /\ ins.fn = "add" ->
            CallAdd(m, scope, env[ins.args[1]], env[ins.args[2]])
      [] OTHER ->
            CallModule(m, scope, ins.fn, self[ins.fn], env[ins.args[1]])

\* the value r of the right-hand side is bound to the target of the statement
Store(ins, f, r) == [m |-> r.m, env |-> (ins.dst :> r.ref) @@ f.env]

\* one statement
Step(self, scope, ins, f) ==
    CHOOSE g \in { Store(ins, f, r) : r \in { Exec(self, scope, ins, f.m, f.env) } } : TRUE

Run(self, scope, code, lo, hi, f) ==
    IF f.m.err # "none" THEN f
    ELSE IF lo = hi THEN Step(self, scope, code[lo], f)
    ELSE CHOOSE h \in
            { Run(self, scope, code, ((lo + hi) \div 2) + 1, hi, g) :
                g \in { Run(self, scope, code, lo, (lo + hi) \div 2, f) } } : TRUE

\* block(x) with x the tensor at reference 1 of the heap
Forward(self, x, accumulation) ==
    CallForward(self, "self",
                [EmptyContext EXCEPT !.heap = <<x>>, !.accumulation = accumulation], 1)

\* ------------------------------------------------------------ the program
VARIABLES
    module_globals,  \* the names bound in the namespace of blocks.py
    block,           \* the block under construction / constructed, or NoBlock
    phase,           \* "imported", "constructed", "construct_failed", "returned", "raised"
    request,         \* the last operation asked for, with its arguments as passed
    ctx,             \* the execution context of the last forward call
    ret,             \* the reference the last forward call returned, or NoRef
    exc,             \* the exception the last operation raised, or "none"
    backend          \* the accumulation order of the library build in use

vars == <<module_globals, block, phase, request, ctx, ret, exc, backend>>

NoBlock == [type |-> "none"]

\* blocks.py lines 14-19 and the three class statements
ImportedNames ==
    {"torch", "Tensor", "nn", "__all__", "ResidualDenseBlock",
     "ResidualResidualDenseBlock", "ResidualFeatureDistillationBlock"}

Init ==
    /\ module_globals = [n \in ImportedNames |-> "module"]
    /\ block = NoBlock
    /\ phase = "imported"
    /\ request = [op |-> "import"]
    /\ ctx = EmptyContext
    /\ ret = NoRef
    /\ exc = "none"
    /\ backend \in Accumulations

\* the inputs
WeightKinds == {"zero", "center", "mixed"}

\* the weights of rdb_1, rdb_2, rdb_3
RRDBWeightKinds ==
    {<<"zero", "zero", "zero">>, <<"tap", "tap", "tap">>,
     <<"zero", "tap", "zero">>, <<"tap", "zero", "tap">>}

\* the largest finite float, (2^24 - 1) * 2^104
MaxFloat == <<"fin", 0, 104, 16777215>>

\* the element at (b, c, y, x) of an input:
\*   "ones"      1.0 everywhere
\*   "signed"    -1.0, 0.0 and 1.0
\*   "fraction"  0.1, -0.0, -0.3 and the largest finite float
\*   "nonfinite" inf, 1.0, nan and -inf
XValue(pattern, b, c, y, x) ==
    CASE pattern = "ones"   -> One
      [] pattern = "signed" -> FromInt(((b + c + y + 2 * x) % 3) - 1)
      [] pattern = "fraction" ->
            CASE (b + c + y + x) % 4 = 0 -> ToFloat32(1, 10)
              [] (b + c + y + x) % 4 = 1 -> Zero(1)
              [] (b + c + y + x) % 4 = 2 -> FMul[FromInt(-1), ToFloat32(3, 10)]
              [] OTHER                   -> MaxFloat
      [] OTHER ->
            CASE (b + c + y + x) % 4 = 0 -> Inf(0)
              [] (b + c + y + x) % 4 = 1 -> One
              [] (b + c + y + x) % 4 = 2 -> NaN
              [] OTHER                   -> Inf(1)

InputTensor(n, c, h, w, pattern) ==
    LET at == [b \in Nat, ch \in Nat, y \in Nat, x \in Nat |->
                  XValue(pattern, b, ch, y, x)]
    IN  NewTensor(<<n, c, h, w>>, at)

Inputs(maxc, patterns) ==
    { InputTensor(nhw[1], c, nhw[2], nhw[3], p) :
        c \in 1..maxc,
        nhw \in {<<1, 1, MaxSide>>, <<1, MaxSide, 2>>, <<MaxBatch, 2, 1>>},
        p \in patterns }

\* a caller binds the gate class in the module namespace
BindGate ==
    /\ phase = "imported"
    /\ "EnhancedSpatialAttention" \notin DOMAIN module_globals
    /\ \E g \in GateKinds :
          module_globals' = module_globals @@ ("EnhancedSpatialAttention" :> g)
    /\ UNCHANGED <<block, phase, request, ctx, ret, exc, backend>>

ConstructRDB ==
    /\ phase = "imported"
    /\ \E c \in 1..MaxChannels, g \in 1..MaxGrowth, wk \in WeightKinds :
          /\ block' = ResidualDenseBlock(c, g, wk, 0)
          /\ request' = [op |-> "RDB", channels |-> c, growth_channels |-> g]
    /\ phase' = "constructed"
    /\ UNCHANGED <<module_globals, ctx, ret, exc, backend>>

ConstructRRDB ==
    /\ phase = "imported"
    /\ \E c \in 1..MaxChannels, g \in 1..MaxGrowth,
          wks \in RRDBWeightKinds :
          /\ block' = ResidualResidualDenseBlock(c, g, wks)
          /\ request' = [op |-> "RRDB", channels |-> c, growth_channels |-> g]
    /\ phase' = "constructed"
    /\ UNCHANGED <<module_globals, ctx, ret, exc, backend>>

\* the name EnhancedSpatialAttention is looked up when line 97 runs
ConstructRFDB ==
    /\ phase = "imported"
    /\ \E c \in 1..(MaxChannels + 1) \cup {WideChannels}, wk \in WeightKinds :
          \* every convolution of the block has at least one output channel
          /\ c \div 2 >= 1
          /\ request' = [op |-> "RFDB", channels |-> c]
          /\ IF "EnhancedSpatialAttention" \in DOMAIN module_globals
             THEN /\ block' = ResidualFeatureDistillationBlock(
                                  c, wk, module_globals["EnhancedSpatialAttention"])
                  /\ phase' = "constructed"
                  /\ exc' = "none"
             ELSE /\ block' = NoBlock
                  /\ phase' = "construct_failed"
                  /\ exc' = "NameError"
    /\ UNCHANGED <<module_globals, ctx, ret, backend>>

Callable == phase = "constructed"

Finish(result, x) ==
    \E r \in {result} :
       /\ request' = [op |-> "forward", x |-> x, self |-> block]
       /\ ctx' = r.m
       /\ ret' = r.ref
       /\ exc' = r.m.err
       /\ phase' = IF r.m.err = "none" THEN "returned" ELSE "raised"
       /\ UNCHANGED <<module_globals, block, backend>>

ForwardRDB ==
    /\ Callable /\ block.type = "ResidualDenseBlock"
    /\ \E x \in Inputs(MaxChannels, {"signed", "fraction", "nonfinite"}) :
          Finish(Forward(block, x, backend), x)

ForwardRRDB ==
    /\ Callable /\ block.type = "ResidualResidualDenseBlock"
    /\ \E x \in Inputs(MaxChannels, {"ones", "nonfinite"}) :
          Finish(Forward(block, x, backend), x)

ForwardRFDB ==
    /\ Callable /\ block.type = "ResidualFeatureDistillationBlock"
    /\ \E x \in Inputs(MaxChannels + 1, {"signed", "fraction", "nonfinite"}) :
          Finish(Forward(block, x, backend), x)

\* the caller drops the block and the tensors of the last call
Release ==
    /\ phase # "imported"
    /\ block' = NoBlock
    /\ phase' = "imported"
    /\ request' = [op |-> "import"]
    /\ ctx' = EmptyContext
    /\ ret' = NoRef
    /\ exc' = "none"
    /\ UNCHANGED <<module_globals, backend>>

Next ==
    \/ BindGate
    \/ ConstructRDB
    \/ ConstructRRDB
    \/ ConstructRFDB
    \/ ForwardRDB
    \/ ForwardRRDB
    \/ ForwardRFDB
    \/ Release

Spec == Init /\ [][Next]_vars

\* -------------------------------------------------------------- properties
Called == request.op = "forward"

\* the channel count a block is configured for
ConfiguredChannels(b) ==
    CASE b.type = "ResidualDenseBlock"         -> b.conv_1.in_channels
      [] b.type = "ResidualResidualDenseBlock" -> b.rdb_1.conv_1.in_channels
      [] b.type = "ResidualFeatureDistillationBlock" -> b.conv_1_distilled.in_channels
      [] OTHER -> 0

ValidCall == Called /\ Channels(request.x) = ConfiguredChannels(block)

IsRDB  == block.type = "ResidualDenseBlock"
IsRRDB == block.type = "ResidualResidualDenseBlock"
IsRFDB == block.type = "ResidualFeatureDistillationBlock"

\* the call of self.<name> recorded in the trace of the last forward call
PosOf(name) ==
    CHOOSE i \in 1..Len(ctx.trace) : ctx.trace[i].scope = "self" /\ ctx.trace[i].op = name

HasEntry(name) ==
    \E i \in 1..Len(ctx.trace) : ctx.trace[i].scope = "self" /\ ctx.trace[i].op = name

EntryOf(name) == ctx.trace[PosOf(name)]

ZeroConv(conv) ==
    /\ \A oc \in 1..conv.out_channels : conv.bias[oc] = 0
    /\ \A oc \in 1..conv.out_channels, ic \in 1..conv.in_channels,
          ky \in 1..conv.kernel_size, kx \in 1..conv.kernel_size :
          conv.weight[oc][ic][ky][kx] = 0

RDBConvNames == <<"conv_1", "conv_2", "conv_3", "conv_4", "conv_5">>

ZeroRDB(rdb) == \A i \in 1..5 : ZeroConv(rdb[RDBConvNames[i]])

SomeNonZeroWeight(conv) ==
    \E oc \in 1..conv.out_channels, ic \in 1..conv.in_channels,
       ky \in 1..conv.kernel_size, kx \in 1..conv.kernel_size :
       conv.weight[oc][ic][ky][kx] # 0

\* every element is a finite number
AllFinite(t) == \A i \in 1..Len(t.data) : IsFinite(t.data[i])

\* a < 0 as the comparison of two floats
Negative(v) == v[1] # "nan" /\ v[2] = 1 /\ ~IsZero(v)

\* torch.equal(a, b): the same shape and a[i] == b[i] for every element
TensorEq(a, b) ==
    /\ a.shape = b.shape
    /\ \A i \in 1..Len(a.data) : FloatEq(a.data[i], b.data[i])

\* C1: a ResidualDenseBlock called on an input of its configured channel
\* count returns a tensor, and that tensor has exactly the shape of the input.
C1_RDBKeepsShape ==
    (IsRDB /\ ValidCall) =>
        /\ phase = "returned"
        /\ ret # NoRef
        /\ ctx.heap[ret].shape = request.x.shape

C1_Witness ==
    /\ IsRDB /\ ValidCall /\ phase = "returned"
    /\ request.x.shape = <<1, 2, MaxSide, 2>>
    /\ block.conv_1.out_channels = 1
    /\ SomeNonZeroWeight(block.conv_5)
    /\ ctx.heap[ret] # request.x

\* C2 as stated: with every weight and bias of its five convolutions zero, a
\* ResidualDenseBlock returns its input, element for element, for every
\* input of the configured channel count.
C2_ZeroRDBIsIdentity ==
    (IsRDB /\ ValidCall /\ ZeroRDB(block)) =>
        /\ phase = "returned"
        /\ TensorEq(ctx.heap[ret], request.x)

\* C2 amended: with every weight and bias of its five convolutions zero, a
\* ResidualDenseBlock returns an input whose elements are all finite,
\* element for element; where the input holds inf, -inf or nan the result
\* holds nan (0 * inf and 0 * nan are nan).
C2_ZeroRDBIsIdentityOnFinite ==
    (IsRDB /\ ValidCall /\ ZeroRDB(block)) =>
        /\ phase = "returned"
        /\ AllFinite(request.x) => TensorEq(ctx.heap[ret], request.x)
        /\ \A i \in 1..Len(request.x.data) :
              ~IsFinite(request.x.data[i]) => IsNaN(ctx.heap[ret].data[i])

C2_Witness ==
    /\ IsRDB /\ ValidCall /\ ZeroRDB(block) /\ phase = "returned"
    /\ AllFinite(request.x)
    /\ \E i \in 1..Len(request.x.data) : Negative(request.x.data[i])
    /\ \E i \in 1..Len(request.x.data) : request.x.data[i] = ToFloat32(1, 10)
    /\ TensorEq(ctx.heap[ret], request.x)

ZeroRRDB(b) == ZeroRDB(b.rdb_1) /\ ZeroRDB(b.rdb_2) /\ ZeroRDB(b.rdb_3)

\* C3 as stated: with every weight and bias of its three ResidualDenseBlocks
\* zero, a ResidualResidualDenseBlock returns its input, element for element.
C3_ZeroRRDBIsIdentity ==
    (IsRRDB /\ ValidCall /\ ZeroRRDB(block)) =>
        /\ phase = "returned"
        /\ TensorEq(ctx.heap[ret], request.x)

\* C3 amended: with every weight and bias zero, a ResidualResidualDenseBlock
\* returns torch.add(torch.mul(x, 0.2), x) for an input x whose elements are
\* all finite: the three blocks pass x through and the outer scaled residual
\* adds 0.2 * x to x. Where x holds inf, -inf or nan the result holds nan.
C3_ZeroRRDBIsScaledSum ==
    (IsRRDB /\ ValidCall /\ ZeroRRDB(block)) =>
        /\ phase = "returned"
        /\ AllFinite(request.x) =>
              TensorEq(ctx.heap[ret],
                       AddValues[MulValues[request.x, ToFloat32(1, 5)], request.x])
        /\ \A i \in 1..Len(request.x.data) :
              ~IsFinite(request.x.data[i]) => IsNaN(ctx.heap[ret].data[i])

\* 1.0 comes back as 1.2000000476837158 = 10066330 * 2^-23
C3_Witness ==
    /\ IsRRDB /\ ValidCall /\ ZeroRRDB(block) /\ phase = "returned"
    /\ AllFinite(request.x)
    /\ ~TensorEq(ctx.heap[ret], request.x)
    /\ \E i \in 1..Len(request.x.data) :
          /\ request.x.data[i] = One
          /\ ctx.heap[ret].data[i] = <<"fin", 0, -23, 10066330>>

\* C4: in a ResidualDenseBlock called on a valid input, the convolution of
\* stage i (i = 0..4) is declared with channels + i * growth_channels input
\* channels and is passed a tensor of exactly that many channels, conv_5
\* gives channels channels back, and neither a convolution nor the residual
\* add meets a mismatch.
C4_RDBChannelPlan ==
    (IsRDB /\ ValidCall) =>
        /\ exc = "none"
        /\ \A i \in 1..5 :
              /\ HasEntry(RDBConvNames[i])
              /\ EntryOf(RDBConvNames[i]).want = block[RDBConvNames[i]].in_channels
              /\ EntryOf(RDBConvNames[i]).want =
                    Channels(request.x) + (i - 1) * block.conv_1.out_channels
              /\ EntryOf(RDBConvNames[i]).got = EntryOf(RDBConvNames[i]).want
              /\ Channels(ctx.heap[EntryOf(RDBConvNames[i]).ins[1]]) =
                    EntryOf(RDBConvNames[i]).want
        /\ Channels(ctx.heap[EntryOf("conv_5").out]) = Channels(request.x)
        /\ HasEntry("add")
        /\ ctx.heap[EntryOf("add").ins[1]].shape = ctx.heap[EntryOf("add").ins[2]].shape

C4_Witness ==
    /\ IsRDB /\ ValidCall /\ phase = "returned"
    /\ Channels(request.x) = 2
    /\ block.conv_1.out_channels = MaxGrowth
    /\ EntryOf("conv_5").got = 2 + 4 * MaxGrowth

\* C5: a ResidualFeatureDistillationBlock has distilled_channels equal to
\* channels // 2, for even and for odd channels, and the concatenation of
\* d1, d2, d3, r4 passed to conv_5 has 4 * distilled_channels channels, which
\* is the in_channels conv_5 is declared with.
C5_RFDBChannelPlan ==
    IsRFDB =>
        /\ block.distilled_channels = ConfiguredChannels(block) \div 2
        /\ block.conv_5.in_channels = 4 * block.distilled_channels
        /\ ValidCall =>
              /\ phase = "returned"
              /\ HasEntry("cat") /\ HasEntry("conv_5")
              /\ Len(EntryOf("cat").ins) = 4
              /\ \A i \in 1..4 :
                    Channels(ctx.heap[EntryOf("cat").ins[i]]) = block.distilled_channels
              /\ Channels(ctx.heap[EntryOf("cat").out]) = 4 * block.distilled_channels
              /\ EntryOf("conv_5").ins = <<EntryOf("cat").out>>
              /\ EntryOf("conv_5").got = 4 * block.distilled_channels
              /\ EntryOf("conv_5").got = EntryOf("conv_5").want

C5_Witness ==
    /\ IsRFDB /\ ValidCall /\ phase = "returned"
    /\ ConfiguredChannels(block) = 3
    /\ block.distilled_channels = 1
    /\ EntryOf("conv_5").got = 4
    /\ SomeNonZeroWeight(block.conv_5)

RFDBConvNames ==
    {"conv_1_distilled", "conv_1_remaining", "conv_2_distilled", "conv_2_remaining",
     "conv_3_distilled", "conv_3_remaining", "conv_4", "conv_5"}

\* C6: constructing a ResidualFeatureDistillationBlock completes without an
\* error and leaves a block that owns eight convolutions and one attention
\* gate.
C6_RFDBConstructs ==
    request.op = "RFDB" =>
        /\ phase = "constructed"
        /\ exc = "none"
        /\ IsRFDB
        /\ Cardinality(RFDBConvNames) = 8
        /\ RFDBConvNames \subseteq DOMAIN block
        /\ \A f \in RFDBConvNames : block[f].type = "Conv2d"
        /\ block.esa.type = "EnhancedSpatialAttention"

\* the block with every activation out of place
OutOfPlace(b) ==
    IF b.type = "ResidualResidualDenseBlock"
    THEN [b EXCEPT !.rdb_1.leaky_relu.inplace = FALSE,
                   !.rdb_2.leaky_relu.inplace = FALSE,
                   !.rdb_3.leaky_relu.inplace = FALSE]
    ELSE [b EXCEPT !.leaky_relu.inplace = FALSE]

\* the tensor block(x) returns
Output(b, x) ==
    CHOOSE t \in { r.m.heap[r.ref] : r \in { Forward(b, x, ctx.accumulation) } } : TRUE

ConvNames == RFDBConvNames \cup {"conv_1", "conv_2", "conv_3"}

\* C7: the forward pass of each block is observationally pure: the tensor
\* returned is the one the block returns when every activation is out of
\* place, the input tensor holds the same values after the call as before,
\* and every buffer an activation overwrites is the result of the convolution
\* or add just before it.
C7_ForwardIsPure ==
    (Called /\ phase = "returned") =>
        /\ ctx.heap[1] = request.x
        /\ ctx.heap[ret] = Output(OutOfPlace(block), request.x)
        /\ \A k \in 1..Len(ctx.trace) :
              (ctx.trace[k].op = "leaky_relu" /\ ctx.trace[k].out = ctx.trace[k].ins[1]) =>
                 /\ k > 1
                 /\ ctx.trace[k].ins[1] # 1
                 /\ ctx.trace[k - 1].scope = ctx.trace[k].scope
                 /\ ctx.trace[k - 1].op \in ConvNames \cup {"add"}
                 /\ ctx.trace[k - 1].out = ctx.trace[k].ins[1]

\* an activation has overwritten a buffer that held a negative value
C7_Witness ==
    /\ Called /\ phase = "returned" /\ IsRDB
    /\ \E k \in 1..Len(ctx.trace) :
          /\ ctx.trace[k].op = "leaky_relu"
          /\ ctx.trace[k].out = ctx.trace[k].ins[1]
          /\ \E i \in 1..Len(ctx.heap[ctx.trace[k].out].data) :
                ctx.heap[ctx.trace[k].out].data[i] = FMul[FromInt(-1), ToFloat32(1, 5)]
    /\ \E i \in 1..Len(request.x.data) : Negative(request.x.data[i])

FirstConv(b) ==
    CASE b.type = "ResidualDenseBlock"         -> <<"self", "conv_1">>
      [] b.type = "ResidualResidualDenseBlock" -> <<"rdb_1", "conv_1">>
      [] OTHER                                 -> <<"self", "conv_1_distilled">>

CallsMade(b) ==
    CASE b.type = "ResidualDenseBlock"         -> 16
      [] b.type = "ResidualResidualDenseBlock" -> 50
      [] OTHER                                 -> 20

\* C8: a forward call with an input of another channel count than the block
\* is configured for raises a shape error at the first convolution, which is
\* the first call made; it returns no tensor, allocates none, and leaves the
\* input tensor and the block as they were. A call that returns has made
\* every call of the method and returns a tensor of the input's shape.
C8_MismatchFailsFast ==
    /\ (Called /\ ~ValidCall) =>
          /\ phase = "raised"
          /\ exc = "ShapeError"
          /\ ret = NoRef
          /\ Len(ctx.trace) = 1
          /\ <<ctx.trace[1].scope, ctx.trace[1].op>> = FirstConv(block)
          /\ ctx.trace[1].ins = <<1>>
          /\ ctx.trace[1].out = NoRef
          /\ ctx.trace[1].want = ConfiguredChannels(block)
          /\ ctx.trace[1].got = Channels(request.x)
          /\ ctx.heap = <<request.x>>
          /\ block = request.self
    /\ (Called /\ phase = "returned") =>
          /\ ValidCall
          /\ ret # NoRef
          /\ ctx.heap[ret].shape = request.x.shape
          /\ Len(ctx.trace) = CallsMade(block)
          /\ block = request.self

\* the error is raised inside rdb_1, the first block of the chain
C8_Witness ==
    /\ Called /\ ~ValidCall /\ phase = "raised" /\ IsRRDB
    /\ ConfiguredChannels(block) = 1
    /\ Channels(request.x) = 2
    /\ ctx.trace[1].scope = "rdb_1"
    /\ ~ZeroRRDB(block)

\* C9: ResidualResidualDenseBlock.forward(x) is x + 0.2 * rdb_3(rdb_2(rdb_1(x))).
C9_RRDBIsScaledChain ==
    (IsRRDB /\ ValidCall) =>
        /\ phase = "returned"
        /\ ctx.heap[ret] =
              AddValues[MulValues[Output(block.rdb_3,
                                      Output(block.rdb_2,
                                          Output(block.rdb_1, request.x))),
                                  ToFloat32(1, 5)],
                        request.x]

\* the three blocks differ and their order shows in the result
C9_Witness ==
    /\ IsRRDB /\ ValidCall /\ phase = "returned"
    /\ ~ZeroRDB(block.rdb_1) /\ ~ZeroRDB(block.rdb_2) /\ ~ZeroRDB(block.rdb_3)
    /\ ctx.heap[ret] #
          AddValues[MulValues[Output(block.rdb_1,
                                  Output(block.rdb_2,
                                      Output(block.rdb_3, request.x))),
                              ToFloat32(1, 5)],
                    request.x]
    /\ AllFinite(request.x) /\ AllFinite(ctx.heap[ret])

\* the tensor stage i of the distillation block reads: x for stage 1, the
\* remaining branch of the stage before for the others
StageInput(i) ==
    IF i = 1 THEN 1
    ELSE ctx.trace[PosOf(RDBConvNames[i - 1] \o "_remaining") + 2].out

\* C10: in ResidualFeatureDistillationBlock.forward the distilled and the
\* remaining branch of stage i = 1..3 read the same stage input, the residual
\* added in the remaining branch is that stage input, the distilled branches
\* and r4 get no residual, the concatenation is d1, d2, d3, r4 in this order,
\* and the attention gate is called once, last, on the output of conv_5, and
\* its result is what forward returns.
C10_RFDBDataFlow ==
    (IsRFDB /\ ValidCall) =>
        /\ phase = "returned"
        /\ Len(ctx.trace) = 20
        /\ \A i \in 1..3 :
              /\ EntryOf(RDBConvNames[i] \o "_distilled").ins = <<StageInput(i)>>
              /\ EntryOf(RDBConvNames[i] \o "_remaining").ins = <<StageInput(i)>>
              /\ ctx.trace[PosOf(RDBConvNames[i] \o "_remaining") + 1].op = "add"
              /\ ctx.trace[PosOf(RDBConvNames[i] \o "_remaining") + 1].ins =
                    <<EntryOf(RDBConvNames[i] \o "_remaining").out, StageInput(i)>>
              /\ ctx.trace[PosOf(RDBConvNames[i] \o "_remaining") + 2].op = "leaky_relu"
              /\ ctx.trace[PosOf(RDBConvNames[i] \o "_remaining") + 2].ins =
                    <<ctx.trace[PosOf(RDBConvNames[i] \o "_remaining") + 1].out>>
              /\ ctx.trace[PosOf(RDBConvNames[i] \o "_distilled") + 1].op = "leaky_relu"
              /\ ctx.trace[PosOf(RDBConvNames[i] \o "_distilled") + 1].ins =
                    <<EntryOf(RDBConvNames[i] \o "_distilled").out>>
        /\ EntryOf("conv_4").ins = <<StageInput(4)>>
        /\ ctx.trace[PosOf("conv_4") + 1].op = "leaky_relu"
        /\ ctx.trace[PosOf("conv_4") + 1].ins = <<EntryOf("conv_4").out>>
        /\ Cardinality({k \in 1..Len(ctx.trace) : ctx.trace[k].op = "add"}) = 3
        /\ EntryOf("cat").ins = <<EntryOf("conv_1_distilled").out,
                                   EntryOf("conv_2_distilled").out,
                                   EntryOf("conv_3_distilled").out,
                                   EntryOf("conv_4").out>>
        /\ EntryOf("conv_5").ins = <<EntryOf("cat").out>>
        /\ Cardinality({k \in 1..Len(ctx.trace) : ctx.trace[k].op = "esa"}) = 1
        /\ ctx.trace[Len(ctx.trace)].op = "esa"
        /\ ctx.trace[Len(ctx.trace)].ins = <<EntryOf("conv_5").out>>
        /\ ret = ctx.trace[Len(ctx.trace)].out
        /\ ctx.heap[ret] = GateValues[block.esa, ctx.heap[EntryOf("conv_5").out]]

C10_Witness ==
    /\ IsRFDB /\ ValidCall /\ phase = "returned"
    /\ ConfiguredChannels(block) = 2
    /\ SomeNonZeroWeight(block.conv_5)
    /\ ctx.heap[EntryOf("conv_1_distilled").out] # ctx.heap[EntryOf("conv_2_distilled").out]
    /\ ctx.heap[EntryOf("conv_3_distilled").out] # ctx.heap[EntryOf("conv_4").out]
    /\ ctx.heap[ret] # ctx.heap[EntryOf("conv_5").out]

====
